---- MODULE Spec2Model ----
(***************************************************************************)
(* Model of restinpieces-sqlite-backup: the server-side backup job         *)
(* (Handler.Handle in backup.go: strategy copy, gzip, cleanup) running     *)
(* against a live SQLite source that other connections keep writing to.    *)
(***************************************************************************)
EXTENDS Integers, Sequences, FiniteSets, TLC

\* ------------------------------------------------------------------ bounds
MaxPages   == 2    \* largest page count of the source database
MaxCommits == 1    \* commits other connections make to the source
MaxRuns    == 2    \* invocations of Handle by the scheduler
MaxClock   == 1    \* wall-clock seconds that pass
MaxStep    == 2    \* largest pages_per_step that is configured
MaxReportPages == 5   \* largest page count of the source under ReportSpec
MaxReportStep  == 3   \* largest pages_per_step under ReportSpec

\* --------------------------------------------------------------- constants
StrategyVacuum == "vacuum"
StrategyOnline == "online"
numLogPoints   == 10

\* A strategy value that is neither vacuum nor online nor unset.
StrategyBogus == "bogus"

\* Page values.  A page written by commit k holds k; the pages of the
\* initial database hold 0.  FreePage is a page on the freelist (fragmentation),
\* NewDbPage the header page sqlite3BtreeNewDb writes into an empty destination.
FreePage  == -1
NewDbPage == -2

\* A page whose b-tree content is damaged (disk corruption of the source).
BadPage == -3

\* The progress_log_interval the README configures ("15s"), in the time unit
\* of sleep_interval, and the largest value the model counts quiet time to.
ProgressLogInterval == 15
QuietCap == ProgressLogInterval + 1

\* Line feed and carriage return, as bytes of latest.txt.
LF == 10
CR == 13

\* The traces the model keeps of a run (steps, reports) hold at most this many
\* entries: a pass over the source takes at most MaxPages steps, and a pass is
\* restarted only after a commit.
TraceCap == (MaxCommits + 1) * MaxPages

Record(trace, x) == IF Len(trace) < TraceCap THEN Append(trace, x) ELSE trace

Min(a, b) == IF a < b THEN a ELSE b
Max(a, b) == IF a > b THEN a ELSE b

\* The rows a database file holds: its pages without free pages and without
\* the bare header page of a new database.
LogicalContent(pages) == SelectSeq(pages, LAMBDA v : v >= 0)

VARIABLES
    toml,         \* the TOML document of the config store the handler was built from
    cfg,          \* Handler.cfg, fixed at NewHandler
    walMode,      \* journal mode of the source: TRUE = WAL, FALSE = rollback journal
    src,          \* pages of the source database file
    commits,      \* number of commits made by other connections
    srcLock,      \* TRUE while the backup holds a read transaction on the source
    hist,         \* source states since the current strategy copy began
    now,          \* wall clock, seconds
    pc,           \* position of Handle
    runs,         \* Handle invocations started
    result,       \* error (or "ok") returned by the last Handle
    srcOpens,     \* sqlite.OpenConn calls on the source in the current run
    temp,         \* the temporary copy file of the current run
    leaked,       \* temporary files of earlier runs that still exist
    finalBackupName, \* artifact name computed by the current run
    dir,          \* backup directory: artifact name -> file
    manifest,     \* bytes of latest.txt in the backup directory
    pre,          \* backup directory and manifest when the current run began
    snap,         \* read snapshot of the VACUUM INTO statement
    backup,       \* sqlite.Backup object of the online strategy
    logger,       \* moduloLogger
    stepTrace,    \* pages copied (totalPages - Remaining) after each loop step
    reports,      \* progress reports of the current run
    sleeps,       \* time.Sleep calls of the current run (counted up to TraceCap)
    stages,       \* stages of the current run, in the order they began/ended
    runLog,       \* per Handle invocation: start second, artifact name, strategy called
    manifestExists, \* does latest.txt exist in the backup directory?
    client,       \* the pull client (main and its locals)
    ctx,          \* the context Handle was invoked with: "live" or "cancelled"
    quiet,        \* time slept in the online loop since the last progress report
    handleErr,    \* the error value the last Handle returned (NoError for nil)
    srcFlags      \* the flags the run opened the source with ("none": not opened)

vars == <<toml, cfg, walMode, src, commits, srcLock, hist,
          now, pc, runs, result, srcOpens, temp, leaked, finalBackupName, dir,
          manifest, pre, snap, backup, logger, stepTrace, reports, sleeps, stages,
          runLog, manifestExists, client, ctx, quiet, handleErr, srcFlags>>

\* What the backup job never touches: the manifest's existence and the client.
consumer == <<manifestExists, client>>

\* ------------------------------------------------------------ configuration
SourcePaths == {"", "/data/app.db"}
BackupDirs  == {"", "/backups"}
Strategies  == {StrategyVacuum, StrategyOnline, "", StrategyBogus}

\* The TOML documents of the config store: the keys the README documents.
Tomls ==
    [source_path : SourcePaths, backup_dir : BackupDirs, strategy : Strategies,
     pages_per_step : 0..MaxStep, sleep_interval : {-1, 0, 1},
     progress_log_interval : {0, ProgressLogInterval}]

\* Number of fields of a document that the specification calls invalid.
Defects(t) ==
    (IF t.source_path = "" THEN 1 ELSE 0) + (IF t.backup_dir = "" THEN 1 ELSE 0)
    + (IF t.strategy = StrategyBogus THEN 1 ELSE 0)
    + (IF t.pages_per_step <= 0 THEN 1 ELSE 0)
    + (IF t.sleep_interval < 0 THEN 1 ELSE 0)
    + (IF t.progress_log_interval <= 0 THEN 1 ELSE 0)

\* The documents the model starts from: at most one invalid field each.  The
\* tuning keys of the online strategy vary only under strategy "online" with
\* every other key valid; elsewhere they have the values below.  An unset
\* strategy comes with valid keys only.
Inputs ==
    {t \in Tomls :
        /\ Defects(t) <= 1
        /\ t.strategy = "" => Defects(t) = 0
        /\ t.strategy \in {StrategyVacuum, StrategyBogus}
             => t.progress_log_interval = ProgressLogInterval
        /\ (t.strategy # StrategyOnline \/ t.source_path = "" \/ t.backup_dir = ""
               \/ t.progress_log_interval <= 0)
             => t.pages_per_step = 1 /\ t.sleep_interval = 0}

\* toml.Unmarshal into Config (backup.go:25-31): Config has no field for
\* progress_log_interval, the key is dropped.
Unmarshal(t) ==
    [SourcePath |-> t.source_path, BackupDir |-> t.backup_dir,
     Strategy |-> t.strategy, PagesPerStep |-> t.pages_per_step,
     SleepInterval |-> t.sleep_interval]

\* strings.TrimSuffix(filepath.Base(p), filepath.Ext(filepath.Base(p))) on the
\* source paths above: Base("") is ".", whose extension is "." itself.
FileNameOnly(p) == IF p = "/data/app.db" THEN "app" ELSE ""

strategyForFilenameRaw(c) == c.Strategy

strategyForFilename(c) == IF c.Strategy = "" THEN StrategyOnline ELSE c.Strategy

\* time.Now().UTC().Format("2006-01-02T15-04-05Z") at second t of the model's
\* clock: the characters of the zero-padded seconds field and the closing Z
\* (the fields before it do not change within the model's time span).
TimestampNoSeconds(t) == <<48, 48, 90>>

Timestamp(t) == <<48 + (t \div 10), 48 + (t % 10), 90>>

\* finalBackupName of a run started at second t (backup.go:73-76), as the
\* three values that fmt.Sprintf joins.
FinalBackupName(c, t) ==
    [base |-> FileNameOnly(c.SourcePath), ts |-> Timestamp(t),
     strategy |-> strategyForFilename(c)]

\* The characters of the strings that occur in file names.
Chars(s) ==
    CASE s = "app"          -> <<97, 112, 112>>
      [] s = StrategyOnline -> <<111, 110, 108, 105, 110, 101>>
      [] s = StrategyVacuum -> <<118, 97, 99, 117, 117, 109>>
      [] s = StrategyBogus  -> <<98, 111, 103, 117, 115>>
      [] s = ".bck.gz"      -> <<46, 98, 99, 107, 46, 103, 122>>
      [] s = "latest.txt"   -> <<108, 97, 116, 101, 115, 116, 46, 116, 120, 116>>
      [] OTHER              -> <<>>

\* fmt.Sprintf("%s-%s-%s.bck.gz", fileNameOnly, timestamp, strategyForFilename)
NameString(n) ==
    Chars(n.base) \o <<45>> \o n.ts \o <<45>> \o Chars(n.strategy) \o Chars(".bck.gz")

\* The switch of Handle (backup.go:84-91): where the strategy value leads.
DispatchDefaultOnline(strategy) ==
    IF strategy = StrategyVacuum THEN "vacuumInto" ELSE "onlineBackup"

Dispatch(strategy) ==
    IF strategy = StrategyVacuum THEN "vacuumInto"
    ELSE IF strategy \in {StrategyOnline, ""} THEN "onlineBackup"
    ELSE "unknown"

\* pagesPerStep := h.cfg.PagesPerStep (backup.go:146), the argument of Step.
pagesPerStepOne(c) == 1

pagesPerStep(c) == c.PagesPerStep

\* GenerateBlueprintConfig (backup.go:51-59); SleepInterval in milliseconds.
GenerateBlueprintConfig ==
    [SourcePath |-> "/path/to/your/database.db", BackupDir |-> "/path/to/your/backups",
     Strategy |-> StrategyOnline, PagesPerStep |-> 100, SleepInterval |-> 10]

\* backup.go:197-199: where the loop goes after a step that left pages to copy.
afterStepAlwaysSleep(c) == "sleep"

afterStep(c) == IF c.SleepInterval > 0 THEN "sleep" ELSE "loop"

validateOnlineConfig(c) ==
    IF c.PagesPerStep <= 0 THEN "err_pages_per_step"
    ELSE IF c.SleepInterval < 0 THEN "err_sleep_interval"
    ELSE "ok"

\* ------------------------------------------------------------------- files
NoFile == [exists |-> FALSE, pages |-> <<>>]

\* The nil error of Handle (backup.go:106), as an error value.
NoError == [step |-> "none", wraps |-> "none"]
File(pages) == [exists |-> TRUE, pages |-> pages]

\* The database a connection opened on cfg.SourcePath reads.  An empty file
\* name opens a private, empty temporary database instead of the source.
SourceDb == IF cfg.SourcePath = "" THEN <<>> ELSE src
SourceVersion == IF cfg.SourcePath = "" THEN 0 ELSE commits

\* VACUUM INTO writes the live pages, defragmented; an empty database
\* still gets its header page.
Defrag(pages) ==
    IF LogicalContent(pages) = <<>> THEN <<NewDbPage>> ELSE LogicalContent(pages)

\* What gzip.Writer has put into the artifact after n pages of input; the
\* trailer (CRC, length) is written by gzipWriter.Close.  hdr is the database
\* size that the header on page 1 of the input records.
GzipStreamLossy(pages, n, closed) ==
    [body |-> SubSeq(pages, 1, n - 1), trailer |-> IF closed THEN <<n - 1>> ELSE <<>>,
     hdr |-> IF n > 1 THEN Len(pages) ELSE 0]

GzipStream(pages, n, closed) ==
    [body |-> SubSeq(pages, 1, n), trailer |-> IF closed THEN <<n>> ELSE <<>>,
     hdr |-> IF n > 0 THEN Len(pages) ELSE 0]

\* The backup directory with file f written under name.
WithFile(d, name, f) ==
    [x \in DOMAIN d \cup {name} |-> IF x = name THEN f ELSE d[x]]

EmptyDir == [x \in {} |-> GzipStream(<<>>, 0, FALSE)]

NoBackup == [open |-> FALSE, iNext |-> 1, nPagecount |-> 0, nRemaining |-> 0, seen |-> 0]
NoLogger == [totalPages |-> 0, logPageInterval |-> 0, nextLogTarget |-> 0]

\* The pull client before main has run.  policy is the resolver it was built
\* with: "manifest" (getLatestBackupFilename) or "listing" (findLatestBackup).
\* localFile is the content of the local copy when localExists, localPath the
\* path downloadBackup returned (<<>> is the empty string), scratch the
\* scratch file of verifyBackup: "none" (never created), "left" (on disk
\* after verifyBackup returned) or "removed".
NoClient(policy) ==
    [policy |-> policy, pc |-> "start", files |-> {}, latestBackupFilename |-> <<>>,
     localFile |-> GzipStream(<<>>, 0, FALSE), fetched |-> GzipStream(<<>>, 0, FALSE),
     localExists |-> FALSE, localPath |-> <<>>, scratch |-> "none",
     err |-> "none", stages |-> <<>>]

\* ------------------------------------------------------------------- Init
\* The handler after NewHandler, and its source database.
InitHandler ==
    /\ toml \in Inputs
    /\ cfg = Unmarshal(toml)
    /\ walMode \in (IF cfg.Strategy = StrategyVacuum THEN BOOLEAN ELSE {FALSE})
    /\ \E P \in 0..MaxPages : src = [i \in 1..P |-> 0]
    /\ commits = 0
    /\ srcLock = FALSE
    /\ hist = <<>>
    /\ now = 0
    /\ pc = "idle"
    /\ runs = 0
    /\ result = "none"
    /\ srcOpens = 0
    /\ temp = NoFile
    /\ leaked = 0
    /\ finalBackupName = FinalBackupName(cfg, 0)
    /\ dir = EmptyDir
    /\ pre = [dir |-> EmptyDir, manifest |-> <<>>]
    /\ snap = <<>>
    /\ backup = NoBackup
    /\ logger = NoLogger
    /\ stepTrace = <<>>
    /\ reports = <<>>
    /\ sleeps = 0
    /\ stages = <<>>
    /\ runLog = <<>>
    /\ ctx = "live"
    /\ quiet = 0
    /\ handleErr = NoError
    /\ srcFlags = "none"

\* No one has written latest.txt, and the client is not run.
Init ==
    /\ InitHandler
    /\ manifest = <<>>
    /\ manifestExists = FALSE
    /\ client = NoClient("manifest")

\* -------------------------------------------------------------- environment
\* Another connection commits a transaction to the source: it rewrites every
\* live page, appends a page, frees the first page or truncates the file.
\* With a rollback journal a commit needs the exclusive lock, which a read
\* transaction blocks; in WAL mode readers do not block the writer.
Copying == pc \in {"vacuumInto", "vacuumStep", "onlineBackup", "loop", "sleep"}

Rewrite(pages, k) == [i \in 1..Len(pages) |-> IF pages[i] = FreePage THEN FreePage ELSE k]

Commit ==
    /\ commits < MaxCommits
    /\ walMode \/ ~srcLock
    /\ \/ Len(src) > 0 /\ src' = Rewrite(src, commits + 1) /\ src' # src
       \/ Len(src) < MaxPages /\ src' = Append(src, commits + 1)
       \/ Len(src) > 0 /\ src[1] # FreePage /\ src' = [src EXCEPT ![1] = FreePage]
       \/ Len(src) > 0 /\ src' = SubSeq(src, 1, Len(src) - 1)
    /\ commits' = commits + 1
    /\ hist' = IF Copying THEN Append(hist, src') ELSE hist
    /\ UNCHANGED <<consumer, runLog, ctx, quiet, handleErr, srcFlags>>
    /\ UNCHANGED <<cfg, toml, walMode, srcLock, now, pc, runs,
                   result, srcOpens, temp, leaked, finalBackupName, dir, manifest,
                   pre, snap, backup, logger, stepTrace, reports, sleeps, stages>>

\* A second of wall-clock time passes.
Tick ==
    /\ now < MaxClock
    /\ now' = now + 1
    /\ UNCHANGED <<consumer, runLog, ctx, quiet, handleErr, srcFlags>>
    /\ UNCHANGED <<cfg, toml, walMode, src, commits, srcLock,
                   hist, pc, runs, result, srcOpens, temp, leaked,
                   finalBackupName, dir, manifest, pre, snap, backup, logger,
                   stepTrace, reports, sleeps, stages>>

\* ------------------------------------------------------------------ Handle
\* fmt.Errorf("<step>: %w", e) names the step and keeps e as the error it
\* wraps (backup.go:94, 101).
ErrorfOpaque(step, e) == [step |-> step, wraps |-> "none"]

Errorf(step, e) == [step |-> step, wraps |-> e]

\* What Handle returns when the step of the action at hand fails with error e.
Returning(e) ==
    handleErr' = IF pc' = "idle" /\ result' # "ok" THEN Errorf(result', e)
                 ELSE handleErr

\* sqlite.OpenConn(sourcePath, sqlite.OpenReadOnly) in both strategies
\* (backup.go:122, 149).
sourceOpenFlagsWritable(strategy) ==
    IF strategy = "vacuumInto" THEN "OpenReadOnly" ELSE "OpenReadWrite"

sourceOpenFlags(strategy) == "OpenReadOnly"

\* Handle returns res; tempAfter is the temporary file once the deferred
\* calls have run.
ReturnKeepTemp(res, tempAfter) ==
    /\ pc' = "idle"
    /\ result' = res
    /\ temp' = temp
    /\ srcLock' = FALSE
    /\ backup' = NoBackup
    /\ snap' = <<>>

Return(res, tempAfter) ==
    /\ pc' = "idle"
    /\ result' = res
    /\ temp' = tempAfter
    /\ srcLock' = FALSE
    /\ backup' = NoBackup
    /\ snap' = <<>>

\* The strategy returned an error: Handle returns it wrapped (backup.go:93-95),
\* before the removal of the temporary file is deferred (backup.go:96).
\* tempLeft is what the strategy left of the temporary file.
CopyFailedIgnored(tempLeft) ==
    /\ stages' = Append(stages, "copy_failed")
    /\ pc' = "compress"
    /\ temp' = tempLeft
    /\ srcLock' = FALSE
    /\ backup' = NoBackup
    /\ snap' = <<>>
    /\ UNCHANGED result

CopyFailed(tempLeft) ==
    /\ stages' = Append(stages, "copy_failed")
    /\ Return("err_backup_creation", tempLeft)

\* backup.go:62-91: compute the names, log, dispatch on the strategy.
HandleBegin ==
    /\ pc = "idle"
    /\ runs < MaxRuns
    /\ runs' = runs + 1
    /\ finalBackupName' = FinalBackupName(cfg, now)
    /\ runLog' = Append(runLog, [start |-> now, name |-> FinalBackupName(cfg, now),
                                 called |-> Dispatch(cfg.Strategy)])
    /\ pre' = [dir |-> dir, manifest |-> manifest]
    /\ leaked' = IF temp.exists THEN leaked + 1 ELSE leaked
    /\ hist' = <<src>>
    /\ srcOpens' = 0
    /\ logger' = NoLogger
    /\ stepTrace' = <<>>
    /\ reports' = <<>>
    /\ sleeps' = 0
    /\ temp' = NoFile
    /\ IF Dispatch(cfg.Strategy) = "unknown"
       THEN /\ pc' = "idle"
            /\ stages' = <<>>
            /\ result' = "err_unknown_strategy"
       ELSE /\ pc' = Dispatch(cfg.Strategy)
            /\ stages' = <<"copy">>
            /\ result' = "running"
    /\ UNCHANGED consumer
    /\ ctx' = "live"
    /\ quiet' = 0
    /\ srcFlags' = "none"
    /\ handleErr' = IF Dispatch(cfg.Strategy) = "unknown"
                    THEN [step |-> "err_unknown_strategy", wraps |-> "none"]
                    ELSE NoError
    /\ UNCHANGED <<cfg, toml, walMode, src, commits, srcLock,
                   now, dir, manifest, snap, backup>>

\* vacuumInto (backup.go:121-133): open the source read-only, prepare the
\* statement; stmt.Step begins its read transaction on the source.
VacuumBegin ==
    /\ pc = "vacuumInto"
    /\ srcOpens' = srcOpens + 1
    /\ \E ok \in BOOLEAN :
         IF ok
         THEN /\ pc' = "vacuumStep"
              /\ srcLock' = TRUE
              /\ snap' = SourceDb
              /\ UNCHANGED <<result, temp, backup, stages>>
         ELSE CopyFailed(NoFile)
    /\ UNCHANGED <<consumer, runLog, ctx, quiet>>
    /\ srcFlags' = sourceOpenFlags("vacuumInto")
    /\ Returning("err_open_source")
    /\ UNCHANGED <<cfg, toml, walMode, src, commits, hist, now,
                   runs, leaked, finalBackupName, dir, manifest, pre, logger,
                   stepTrace, reports, sleeps>>

\* vacuumInto (backup.go:134-138): the statement completes or fails; Handle
\* returns a failure at backup.go:93-95, before the removal is deferred.
VacuumEnd ==
    /\ pc = "vacuumStep"
    /\ \/ /\ temp' = File(Defrag(snap))
          /\ pc' = "compress"
          /\ srcLock' = FALSE
          /\ snap' = <<>>
          /\ stages' = Append(stages, "copy_done")
          /\ UNCHANGED <<result, backup>>
       \/ \E created \in BOOLEAN :
            CopyFailed(IF created THEN File(<<>>) ELSE NoFile)
    /\ UNCHANGED <<consumer, runLog, ctx, quiet, srcFlags>>
    /\ Returning("err_vacuum_step")
    /\ UNCHANGED <<cfg, toml, walMode, src, commits, hist, now,
                   runs, srcOpens, leaked, finalBackupName, dir, manifest, pre,
                   logger, stepTrace, reports, sleeps>>

\* ------------------------------------------------- the online backup object
\* sqlite3_backup_step as called at backup.go:184 and backup.go:215: take a
\* read lock on the source; when another connection has changed the source
\* since the last step the copy restarts at page 1; copy up to n pages; report
\* done when the last source page has been copied, and then give the
\* destination the size of the source (a header page for an empty source).
BackupStepFrom(b, dest, n, restarted) ==
    LET iStart    == IF restarted THEN 1 ELSE b.iNext
        nSrc      == Len(SourceDb)
        last      == Min(iStart + n - 1, nSrc)
        copied    == [i \in 1..Max(Len(dest), last) |->
                         IF i >= iStart /\ i <= last THEN SourceDb[i] ELSE dest[i]]
        iNext     == Max(iStart, last + 1)
        done      == iNext > nSrc
    IN  [b    |-> [open |-> TRUE, iNext |-> iNext, nPagecount |-> nSrc,
                   nRemaining |-> nSrc + 1 - iNext, seen |-> SourceVersion],
         dest |-> IF ~done THEN copied
                  ELSE IF nSrc = 0 THEN <<NewDbPage>> ELSE SubSeq(copied, 1, nSrc),
         more |-> ~done]

BackupStepNoRestart(b, dest, n) == BackupStepFrom(b, dest, n, FALSE)

BackupStep(b, dest, n) == BackupStepFrom(b, dest, n, b.seen # SourceVersion)

\* newModuloLogger (backup.go:214-235), after its Step(0); NoLogger is the nil
\* logger it returns for a database of zero pages.
newModuloLoggerNeverNil(b) ==
    [totalPages |-> b.nPagecount, logPageInterval |-> 1, nextLogTarget |-> 1]

newModuloLogger(b) ==
    LET totalPages == b.nPagecount
        interval   == IF totalPages \div numLogPoints = 0 THEN 1
                      ELSE totalPages \div numLogPoints
    IN  IF totalPages = 0 THEN NoLogger
        ELSE [totalPages |-> totalPages, logPageInterval |-> interval,
              nextLogTarget |-> interval]

\* moduloLogger.log (backup.go:252-258): the report it writes.
Report(m, b, final) ==
    [pages_copied |-> m.totalPages - b.nRemaining, total_pages |-> m.totalPages,
     final |-> final]

\* moduloLogger.Log (backup.go:238-244): does it write a report?
LogDue(m, b) == m.totalPages - b.nRemaining >= m.nextLogTarget

\* onlineBackup (backup.go:141-181): validate, open source and destination,
\* create the backup object, newModuloLogger with its Step(0).  A failure after
\* the destination was created leaves the file: Handle returns at
\* backup.go:93-95, before the removal is deferred.
OnlineOpen ==
    /\ pc = "onlineBackup"
    /\ IF validateOnlineConfig(cfg) # "ok"
       THEN /\ CopyFailed(NoFile)
            /\ UNCHANGED <<srcOpens, logger>>
       ELSE /\ srcOpens' = srcOpens + 1
            /\ \/ /\ CopyFailed(NoFile)
                  /\ UNCHANGED logger
               \/ /\ CopyFailed(File(<<>>))
                  /\ UNCHANGED logger
               \/ LET r == BackupStep([NoBackup EXCEPT !.seen = SourceVersion], <<>>, 0)
                  IN  /\ logger' = newModuloLogger(r.b)
                      /\ temp' = File(r.dest)
                      /\ UNCHANGED <<result, srcLock, snap>>
                      /\ IF newModuloLogger(r.b) = NoLogger
                         THEN /\ pc' = "compress"
                              /\ backup' = NoBackup
                              /\ stages' = Append(stages, "copy_done")
                         ELSE /\ pc' = "loop"
                              /\ backup' = r.b
                              /\ UNCHANGED stages
    /\ UNCHANGED <<consumer, runLog, ctx, quiet>>
    /\ srcFlags' = IF validateOnlineConfig(cfg) = "ok"
                   THEN sourceOpenFlags("onlineBackup") ELSE srcFlags
    /\ Returning(IF validateOnlineConfig(cfg) # "ok" THEN validateOnlineConfig(cfg)
                 ELSE IF temp'.exists THEN "err_init_backup"
                 ELSE "err_open_source")
    /\ UNCHANGED <<cfg, toml, walMode, src, commits, hist, now, runs, leaked,
                   finalBackupName, dir, manifest, pre, stepTrace, reports, sleeps>>

\* onlineBackup (backup.go:183-200): one iteration of the loop up to the sleep.
OnlineStep ==
    /\ pc = "loop"
    /\ \/ /\ CopyFailed(temp)
          /\ UNCHANGED <<logger, stepTrace, reports, quiet>>
       \/ LET r == BackupStep(backup, temp.pages, pagesPerStep(cfg))
          IN  /\ temp' = File(r.dest)
              /\ stepTrace' = Record(stepTrace, logger.totalPages - r.b.nRemaining)
              /\ UNCHANGED <<result, srcLock, snap>>
              /\ IF ~r.more
                 THEN /\ reports' = Record(reports, Report(logger, r.b, TRUE))
                      /\ quiet' = 0
                      /\ pc' = "compress"
                      /\ backup' = NoBackup
                      /\ stages' = Append(stages, "copy_done")
                      /\ UNCHANGED logger
                 ELSE /\ IF LogDue(logger, r.b)
                         THEN /\ reports' = Record(reports, Report(logger, r.b, FALSE))
                              /\ logger' = [logger EXCEPT !.nextLogTarget =
                                                @ + logger.logPageInterval]
                              /\ quiet' = 0
                         ELSE UNCHANGED <<reports, logger, quiet>>
                      /\ pc' = afterStep(cfg)
                      /\ backup' = r.b
                      /\ UNCHANGED stages
    /\ UNCHANGED <<consumer, runLog, ctx, srcFlags>>
    /\ Returning("err_backup_step")
    /\ UNCHANGED <<cfg, toml, walMode, src, commits, hist, now, runs, srcOpens,
                   leaked, finalBackupName, dir, manifest, pre, sleeps>>

\* onlineBackup (backup.go:197-199): time.Sleep(sleepInterval) returns.
OnlineSleep ==
    /\ pc = "sleep"
    /\ sleeps' = IF sleeps < TraceCap THEN sleeps + 1 ELSE sleeps
    /\ quiet' = Min(quiet + cfg.SleepInterval, QuietCap)
    /\ pc' = "loop"
    /\ UNCHANGED <<consumer, runLog, ctx, handleErr, srcFlags>>
    /\ UNCHANGED <<cfg, toml, walMode, src, commits, srcLock, hist, now, runs,
                   result, srcOpens, temp, leaked, finalBackupName, dir, manifest,
                   pre, snap, backup, logger, stepTrace, reports, stages>>

\* compressFile (backup.go:263-277): open the temporary file, create (or
\* truncate) the artifact, start the gzip stream.  On an error Handle returns
\* at backup.go:100-102 and the deferred os.Remove deletes the temporary file.
CompressOpen ==
    /\ pc = "compress"
    /\ \/ /\ dir' = WithFile(dir, finalBackupName, GzipStream(temp.pages, 0, FALSE))
          /\ pc' = "copy"
          /\ stages' = Append(stages, "compress")
          /\ UNCHANGED <<result, temp, srcLock, backup, snap>>
       \/ /\ Return("err_gzip", NoFile)
          /\ stages' = Append(stages, "compress_failed")
          /\ UNCHANGED dir
    /\ UNCHANGED <<consumer, runLog, ctx, quiet, srcFlags>>
    /\ Returning("err_create_dest")
    /\ UNCHANGED <<cfg, toml, walMode, src, commits, hist, now,
                   runs, srcOpens, leaked, finalBackupName, manifest, pre, logger,
                   stepTrace, reports, sleeps>>

\* compressFile (backup.go:277-284): io.Copy, then the deferred
\* gzipWriter.Close and destFile.Close, whose errors are dropped; Handle
\* returns (backup.go:100-107) and the deferred os.Remove runs.
CompressCopy ==
    /\ pc = "copy"
    /\ \/ /\ \E closed \in BOOLEAN :
               dir' = WithFile(dir, finalBackupName,
                               GzipStream(temp.pages, Len(temp.pages), closed))
          /\ Return("ok", NoFile)
          /\ stages' = Append(stages, "compress_done")
       \/ /\ \E closed \in BOOLEAN :
               dir' = WithFile(dir, finalBackupName,
                               GzipStream(temp.pages, Len(temp.pages) - 1, closed))
          /\ Return("err_gzip", NoFile)
          /\ stages' = Append(stages, "compress_failed")
    /\ UNCHANGED <<consumer, runLog, ctx, quiet, srcFlags>>
    /\ Returning("err_copy_compress")
    /\ UNCHANGED <<cfg, toml, walMode, src, commits, hist, now,
                   runs, srcOpens, leaked, finalBackupName, manifest, pre, logger,
                   stepTrace, reports, sleeps>>

Next ==
    \/ Commit \/ Tick \/ HandleBegin
    \/ VacuumBegin \/ VacuumEnd
    \/ OnlineOpen \/ OnlineStep \/ OnlineSleep
    \/ CompressOpen \/ CompressCopy

Spec == Init /\ [][Next]_vars

ValidConfig == Defects(toml) = 0

\* ---------------------------------------------- a writer that never stops
\* The online strategy under a continuous write load: commits without a bound
\* on their number, each rewriting the live pages.  The page stamps alternate, and a commit marks an open
\* backup object as stale, which is what the next step's read lock finds out.
NextStamp == IF \E i \in 1..Len(src) : src[i] = 1 THEN 2 ELSE 1

CommitForever ==
    /\ walMode \/ ~srcLock
    /\ Len(src) > 0
    /\ src' = Rewrite(src, NextStamp)
    /\ backup' = IF backup.open THEN [backup EXCEPT !.seen = -1] ELSE backup
    /\ UNCHANGED <<consumer, runLog, ctx, quiet, handleErr, srcFlags>>
    /\ UNCHANGED <<cfg, toml, walMode, commits, srcLock, hist, now, pc, runs,
                   result, srcOpens, temp, leaked, finalBackupName, dir, manifest,
                   pre, snap, logger, stepTrace, reports, sleeps, stages>>

\* The context of the running invocation is cancelled while the online loop
\* runs (ctx is the first parameter of Handle, backup.go:62).
Cancel ==
    /\ pc \in {"loop", "sleep"}
    /\ ctx = "live"
    /\ ctx' = "cancelled"
    /\ UNCHANGED <<toml, cfg, walMode, src, commits, srcLock, hist, now, pc, runs,
                   result, srcOpens, temp, leaked, finalBackupName, dir, manifest,
                   pre, snap, backup, logger, stepTrace, reports, sleeps, stages,
                   runLog, manifestExists, client, quiet,
                   handleErr, srcFlags>>

InitLive == Init /\ cfg.Strategy = StrategyOnline /\ ValidConfig

NextLive ==
    \/ CommitForever \/ Cancel \/ HandleBegin
    \/ OnlineOpen \/ OnlineStep \/ OnlineSleep
    \/ CompressOpen \/ CompressCopy

\* Handle runs in its own goroutine: whenever it can take its next step it
\* eventually does.  Nothing is assumed of the writers or of the scheduler.
HandleFair ==
    /\ WF_vars(OnlineOpen) /\ WF_vars(OnlineStep) /\ WF_vars(OnlineSleep)
    /\ WF_vars(CompressOpen) /\ WF_vars(CompressCopy)

LiveSpec == InitLive /\ [][NextLive]_vars /\ HandleFair

\* --------------------------------------------- progress reports at scale
\* The online strategy on sources large enough for a step to pass the next
\* report target (pages_per_step above the report interval), with a writer
\* that commits while the loop runs.
ReportCommit ==
    /\ commits < MaxCommits
    /\ ~srcLock
    /\ \/ Len(src) > 0 /\ src' = Rewrite(src, commits + 1) /\ src' # src
       \/ Len(src) < MaxReportPages /\ src' = Append(src, commits + 1)
       \/ Len(src) > 0 /\ src' = SubSeq(src, 1, Len(src) - 1)
    /\ commits' = commits + 1
    /\ hist' = IF Copying THEN Append(hist, src') ELSE hist
    /\ UNCHANGED <<consumer, runLog, ctx, quiet, handleErr, srcFlags>>
    /\ UNCHANGED <<cfg, toml, walMode, srcLock, now, pc, runs,
                   result, srcOpens, temp, leaked, finalBackupName, dir, manifest,
                   pre, snap, backup, logger, stepTrace, reports, sleeps, stages>>

InitReport ==
    /\ \E n \in 1..MaxReportStep :
          toml = [source_path |-> "/data/app.db", backup_dir |-> "/backups",
                  strategy |-> StrategyOnline, pages_per_step |-> n,
                  sleep_interval |-> 0, progress_log_interval |-> ProgressLogInterval]
    /\ cfg = Unmarshal(toml)
    /\ walMode = FALSE
    /\ \E n \in 0..MaxReportPages : src = [i \in 1..n |-> 0]
    /\ commits = 0
    /\ srcLock = FALSE
    /\ hist = <<>>
    /\ now = 0
    /\ pc = "idle"
    /\ runs = 0
    /\ result = "none"
    /\ srcOpens = 0
    /\ temp = NoFile
    /\ leaked = 0
    /\ finalBackupName = FinalBackupName(cfg, 0)
    /\ dir = EmptyDir
    /\ pre = [dir |-> EmptyDir, manifest |-> <<>>]
    /\ snap = <<>>
    /\ backup = NoBackup
    /\ logger = NoLogger
    /\ stepTrace = <<>>
    /\ reports = <<>>
    /\ sleeps = 0
    /\ stages = <<>>
    /\ runLog = <<>>
    /\ ctx = "live"
    /\ quiet = 0
    /\ handleErr = NoError
    /\ srcFlags = "none"
    /\ manifest = <<>>
    /\ manifestExists = FALSE
    /\ client = NoClient("manifest")

NextReport ==
    \/ ReportCommit \/ HandleBegin
    \/ OnlineOpen \/ OnlineStep
    \/ CompressOpen \/ CompressCopy

ReportSpec == InitReport /\ [][NextReport]_vars

\* ============================================================ pull client
\* The client program (main, getLatestBackupFilename / findLatestBackup,
\* downloadBackup, verifyBackup, decompressFile) reading the backup directory
\* over SFTP.

\* a < b as Go compares strings: byte by byte, a proper prefix is smaller.
LexLess(a, b) ==
    \E k \in 0..Min(Len(a), Len(b)) :
        /\ \A i \in 1..k : a[i] = b[i]
        /\ k < Len(b)
        /\ (k < Len(a) => a[k + 1] < b[k + 1])

\* bufio.Scanner with ScanLines on the bytes of a non-empty file: the first
\* token is the text before the first line feed, without a trailing CR.
FirstLine(bytes) ==
    LET feeds == {i \in 1..Len(bytes) : bytes[i] = LF}
        end   == IF feeds = {} THEN Len(bytes)
                 ELSE (CHOOSE i \in feeds : \A j \in feeds : i <= j) - 1
        line  == SubSeq(bytes, 1, end)
    IN  IF Len(line) > 0 /\ line[Len(line)] = CR
        THEN SubSeq(line, 1, Len(line) - 1) ELSE line

\* getLatestBackupFilename: open latest.txt, return the scanner's first token.
getLatestBackupFilename(exists, bytes) ==
    IF ~exists THEN [err |-> "err_open_manifest", name |-> <<>>]
    ELSE IF Len(bytes) = 0 THEN [err |-> "err_manifest_empty", name |-> <<>>]
    ELSE [err |-> "none", name |-> FirstLine(bytes)]

\* client.ReadDir: the names of all entries of the backup directory.
ReadDir(d, exists) ==
    {NameString(n) : n \in DOMAIN d} \cup (IF exists THEN {Chars("latest.txt")} ELSE {})

\* findLatestBackup: sort the names in descending order, return the first.
findLatestBackupAscending(files) ==
    IF files = {} THEN [err |-> "err_no_backup_files", name |-> <<>>]
    ELSE [err |-> "none",
          name |-> CHOOSE f \in files : \A g \in files : g = f \/ LexLess(f, g)]

findLatestBackup(files) ==
    IF files = {} THEN [err |-> "err_no_backup_files", name |-> <<>>]
    ELSE [err |-> "none",
          name |-> CHOOSE f \in files : \A g \in files : g = f \/ LexLess(g, f)]

\* A file is cut short by its last byte: the trailer ends the gzip stream, the
\* compressed body comes before it.
TruncateLastByte(f) ==
    IF f.trailer # <<>> THEN [f EXCEPT !.trailer = <<>>]
    ELSE [f EXCEPT !.body = SubSeq(@, 1, Len(@) - 1)]

\* gzip.NewReader: the stream's header is there to read.  A file with neither
\* data nor trailer stands for one that ends before its header does (the
\* artifact right after os.Create, latest.txt).
gzipNewReader(f) == f.body # <<>> \/ f.trailer # <<>>

\* decompressFile: gzip.NewReader and io.Copy succeed when the stream has its
\* header and ends with a trailer that matches the data; the result is the
\* database file (its pages, the size its header records).
\* created: did decompressFile reach os.Create of the destination?  It does
\* once gzip.NewReader has read the stream's header.
decompressFileLenient(f) ==
    [ok |-> TRUE, created |-> TRUE, pages |-> f.body, hdr |-> f.hdr]

decompressFile(f) ==
    IF ~gzipNewReader(f)
    THEN [ok |-> FALSE, created |-> FALSE, pages |-> <<>>, hdr |-> 0]
    ELSE IF f.trailer = <<Len(f.body)>>
    THEN [ok |-> TRUE, created |-> TRUE, pages |-> f.body, hdr |-> f.hdr]
    ELSE [ok |-> FALSE, created |-> TRUE, pages |-> <<>>, hdr |-> 0]

\* sqlite.OpenConn read-only, Prepare and Step of PRAGMA integrity_check on a
\* database file: an empty file is an empty database; a file shorter than its
\* header says is malformed (engine error); a damaged page is reported in the
\* rows of the result.
IntegrityCheck(db) ==
    IF Len(db.pages) = 0 THEN [err |-> FALSE, rows |-> <<"ok">>]
    ELSE IF db.hdr > Len(db.pages) THEN [err |-> TRUE, rows |-> <<>>]
    ELSE IF \E i \in 1..Len(db.pages) : db.pages[i] = BadPage
         THEN [err |-> FALSE, rows |-> <<"page_damaged">>]
    ELSE [err |-> FALSE, rows |-> <<"ok">>]

\* verifyBackup: decompress, open, run the integrity check, compare with "ok".
verifyBackupAnyRow(f) ==
    LET d == decompressFile(f)
        r == IntegrityCheck(d)
    IN  IF ~d.ok THEN "err_decompress"
        ELSE IF r.err THEN "err_integrity_check"
        ELSE IF r.rows = <<>> THEN "err_no_rows"
        ELSE "none"

verifyBackup(f) ==
    LET d == decompressFile(f)
        r == IntegrityCheck(d)
    IN  IF ~d.ok THEN "err_decompress"
        ELSE IF r.err THEN "err_integrity_check"
        ELSE IF r.rows = <<>> THEN "err_no_rows"
        ELSE IF r.rows[1] # "ok" THEN "err_integrity_result"
        ELSE "none"

\* verifyBackup's scratch file when it returns: the removal is deferred only
\* after decompressFile has succeeded.
scratchAfterVerify(f) ==
    LET d == decompressFile(f)
    IN  IF ~d.created THEN "none" ELSE IF ~d.ok THEN "left" ELSE "removed"

\* os.Exit(1) after an error of a stage.
Exit1Retry(e, stage) ==
    client' = [client EXCEPT !.pc = "start", !.err = e,
                             !.stages = Append(@, stage)]

Exit1(e, stage) ==
    client' = [client EXCEPT !.pc = "exit1", !.err = e,
                             !.stages = Append(@, stage)]

\* main, step 2: resolve the name of the latest backup.
ClientResolve ==
    /\ client.pc = "start"
    /\ LET files == IF client.policy = "listing" THEN ReadDir(dir, manifestExists)
                    ELSE {}
           r     == IF client.policy = "listing" THEN findLatestBackup(files)
                    ELSE getLatestBackupFilename(manifestExists, manifest)
       IN  client' = [client EXCEPT
                        !.files = files,
                        !.latestBackupFilename = r.name,
                        !.err = r.err,
                        !.pc = IF r.err = "none" THEN "resolved" ELSE "exit1",
                        !.stages = Append(@, "resolve")]
    /\ UNCHANGED <<toml, cfg, walMode, src, commits, srcLock, hist, now, pc, runs,
                   result, srcOpens, temp, leaked, finalBackupName, dir, manifest,
                   pre, snap, backup, logger, stepTrace, reports, sleeps, stages,
                   runLog, manifestExists, ctx, quiet,
                   handleErr, srcFlags>>

\* downloadBackup with a missing remote file: client.Open fails, nothing is
\* created locally.
DownloadMissingIgnored ==
    client' = [client EXCEPT !.pc = "downloaded", !.stages = Append(@, "download")]

DownloadMissing == Exit1("err_not_found", "download")

\* What a transfer that stops in mid-stream has written of remote file f.
Partials(f) == {GzipStream(<<>>, 0, FALSE), TruncateLastByte(f)}

\* downloadBackup when io.Copy fails: the error is returned without a path,
\* the local file stays as far as it was written.
DownloadAbortedCleanup(f) ==
    client' = [client EXCEPT !.pc = "exit1", !.err = "err_copy",
                  !.localExists = FALSE, !.fetched = f,
                  !.stages = Append(@, "download")]

DownloadAborted(f) ==
    \E p \in Partials(f) :
        client' = [client EXCEPT !.pc = "exit1", !.err = "err_copy",
                      !.localExists = TRUE, !.localFile = p, !.fetched = f,
                      !.localPath = <<>>,
                      !.stages = Append(@, "download")]

\* main, step 3: downloadBackup.  An empty name makes localPath the local
\* directory itself, which os.Create refuses.
ClientDownload ==
    /\ client.pc = "resolved"
    /\ LET name  == client.latestBackupFilename
           found == {n \in DOMAIN dir : NameString(n) = name}
       IN  IF name = <<>> THEN Exit1("err_create_local", "download")
           ELSE IF name = Chars("latest.txt") /\ manifestExists
           THEN client' = [client EXCEPT !.pc = "downloaded",
                              !.localFile = GzipStream(<<>>, 0, FALSE),
                              !.fetched = GzipStream(<<>>, 0, FALSE),
                              !.localExists = TRUE, !.localPath = name,
                              !.stages = Append(@, "download")]
           ELSE IF found = {} THEN DownloadMissing
           ELSE \E n \in found :
                  \/ DownloadAborted(dir[n])
                  \/ client' = [client EXCEPT !.pc = "downloaded",
                                   !.localFile = dir[n], !.fetched = dir[n],
                                   !.localExists = TRUE, !.localPath = name,
                                   !.stages = Append(@, "download")]
    /\ UNCHANGED <<toml, cfg, walMode, src, commits, srcLock, hist, now, pc, runs,
                   result, srcOpens, temp, leaked, finalBackupName, dir, manifest,
                   pre, snap, backup, logger, stepTrace, reports, sleeps, stages,
                   runLog, manifestExists, ctx, quiet,
                   handleErr, srcFlags>>

\* The downloaded file loses its last byte before it is verified.
Truncate ==
    /\ client.pc = "downloaded"
    /\ client.localFile = client.fetched
    /\ client' = [client EXCEPT !.localFile = TruncateLastByte(@)]
    /\ client'.localFile # client.localFile
    /\ UNCHANGED <<toml, cfg, walMode, src, commits, srcLock, hist, now, pc, runs,
                   result, srcOpens, temp, leaked, finalBackupName, dir, manifest,
                   pre, snap, backup, logger, stepTrace, reports, sleeps, stages,
                   runLog, manifestExists, ctx, quiet,
                   handleErr, srcFlags>>

\* main, step 4: verifyBackup, then the success message.
ClientVerify ==
    /\ client.pc = "downloaded"
    /\ LET e == verifyBackup(client.localFile)
       IN  client' = [client EXCEPT !.pc = IF e = "none" THEN "valid" ELSE "exit1",
                                    !.err = e, !.stages = Append(@, "verify"),
                                    !.scratch = scratchAfterVerify(client.localFile)]
    /\ UNCHANGED <<toml, cfg, walMode, src, commits, srcLock, hist, now, pc, runs,
                   result, srcOpens, temp, leaked, finalBackupName, dir, manifest,
                   pre, snap, backup, logger, stepTrace, reports, sleeps, stages,
                   runLog, manifestExists, ctx, quiet,
                   handleErr, srcFlags>>

\* A page of the source is damaged on disk before the first backup; the raw
\* page copy of the online strategy carries it into the backup.
Corrupt ==
    /\ runs = 0
    /\ cfg.Strategy # StrategyVacuum
    /\ \A i \in 1..Len(src) : src[i] # BadPage
    /\ \E i \in 1..Len(src) : src' = [src EXCEPT ![i] = BadPage]
    /\ UNCHANGED <<toml, cfg, walMode, commits, srcLock, hist, now, pc, runs,
                   result, srcOpens, temp, leaked, finalBackupName, dir, manifest,
                   pre, snap, backup, logger, stepTrace, reports, sleeps, stages,
                   runLog, manifestExists, client, ctx, quiet,
                   handleErr, srcFlags>>

\* The contents latest.txt may have: nothing, a line break, the name of an
\* artifact of this handler with or without a closing line break.  The
\* listing client never reads the file; for it the content does not vary.
\* The names are those of runs started at the first and at the last second.
ManifestContents ==
    LET names == {NameString(FinalBackupName(cfg, t)) : t \in {0, MaxClock}}
    IN  {<<>>, <<LF>>} \cup names \cup {n \o <<LF>> : n \in names}

InitClient ==
    /\ InitHandler
    /\ ValidConfig
    /\ toml.strategy # ""
    /\ toml.pages_per_step = 1 /\ toml.sleep_interval = 0
    /\ walMode = FALSE
    /\ Len(src) \in {0, MaxPages}
    /\ manifestExists \in BOOLEAN
    /\ \E policy \in {"manifest", "listing"} : client = NoClient(policy)
    /\ manifest \in (IF ~manifestExists THEN {<<>>}
                     ELSE IF client.policy = "manifest" THEN ManifestContents
                     ELSE {NameString(FinalBackupName(cfg, 0))})

NextClient ==
    \/ Tick \/ Corrupt \/ HandleBegin
    \/ VacuumBegin \/ VacuumEnd
    \/ OnlineOpen \/ OnlineStep
    \/ CompressOpen \/ CompressCopy
    \/ ClientResolve \/ ClientDownload \/ Truncate \/ ClientVerify

ClientSpec == InitClient /\ [][NextClient]_vars

\* =================================================================== claims
Returned == pc = "idle" /\ runs > 0
OnlineChosen == cfg.Strategy \in {StrategyOnline, ""}
Has(stage) == \E i \in 1..Len(stages) : stages[i] = stage

\* The artifact f holds the whole gzip stream of pages, trailer included.
CompleteArtifact(f, pages) == f = GzipStream(pages, Len(pages), TRUE)
FullyWritten(f) == f.trailer = <<Len(f.body)>>

\* C1: a returned run with a valid configuration has either added exactly one
\* artifact and pointed the manifest at it, or left the backup directory and
\* the manifest as they were; a run that failed left both as they were.
C1_AllOrNothing ==
    (Returned /\ ValidConfig) =>
        /\ \/ /\ DOMAIN dir \ DOMAIN pre.dir = {finalBackupName}
              /\ \A n \in DOMAIN pre.dir : dir[n] = pre.dir[n]
              /\ manifest = NameString(finalBackupName)
           \/ /\ dir = pre.dir
              /\ manifest = pre.manifest
        /\ result # "ok" => dir = pre.dir /\ manifest = pre.manifest

\* C2: after a run that returned success, latest.txt holds exactly the name of
\* the artifact of that run, and that artifact exists and is fully written.
C2_ManifestNamesLatest ==
    (Returned /\ result = "ok") =>
        /\ manifest = NameString(finalBackupName)
        /\ finalBackupName \in DOMAIN dir
        /\ FullyWritten(dir[finalBackupName])

C4_PointInTimeCopy ==
    (pc \in {"compress", "copy"} /\ cfg.SourcePath # "") =>
        \E i \in 1..Len(hist) :
            LogicalContent(temp.pages) = LogicalContent(hist[i])

\* An online copy of several steps during which the source was committed to,
\* and a vacuum copy with a commit inside its read transaction.
C4_Witness ==
    /\ pc = "compress" /\ cfg.SourcePath # "" /\ OnlineChosen
    /\ Len(stepTrace) >= 2 /\ Len(hist) >= 2
    /\ LogicalContent(temp.pages) # LogicalContent(hist[1])

\* C5: after Handle has returned, the temporary file of that run is gone.
C5_TempRemoved == Returned => ~temp.exists

\* C6: with a strategy that is neither vacuum nor online nor unset, Handle
\* fails with the unknown-strategy error and does no I/O: the source is never
\* opened and no temporary file or artifact is created.
C6_UnknownStrategyNoIO ==
    cfg.Strategy \notin {StrategyVacuum, StrategyOnline, ""} =>
        /\ pc = "idle"
        /\ runs > 0 => result = "err_unknown_strategy"
        /\ srcOpens = 0
        /\ ~temp.exists /\ leaked = 0
        /\ dir = EmptyDir

C6_Witness == cfg.Strategy = StrategyBogus /\ runs = MaxRuns

\* C7: under the online strategy, a document whose pages_per_step is not
\* positive, whose sleep_interval is negative or whose progress_log_interval
\* is not positive is rejected before any I/O.
C7_OnlineConfigRejected ==
    (OnlineChosen /\ (\/ toml.pages_per_step <= 0
                      \/ toml.sleep_interval < 0
                      \/ toml.progress_log_interval <= 0)) =>
        /\ pc \in {"idle", "onlineBackup"}
        /\ Returned => result = "err_backup_creation"
        /\ srcOpens = 0
        /\ ~temp.exists /\ leaked = 0
        /\ dir = EmptyDir

\* C8: a configuration with an empty source_path or an empty backup_dir makes
\* Handle fail before any I/O: no database is opened, no file is created.
C8_MissingFieldRejected ==
    (cfg.SourcePath = "" \/ cfg.BackupDir = "") =>
        /\ pc \in {"idle", "vacuumInto", "onlineBackup"}
        /\ Returned => result \notin {"ok", "err_gzip"}
        /\ srcOpens = 0
        /\ ~temp.exists /\ leaked = 0
        /\ dir = EmptyDir

\* C9: an online copy of a source of P pages that no one modified during the
\* copy takes exactly ceil(P/S) steps of the loop; the pages copied never
\* exceed P and equal P after the last step only; the final report states
\* pages_copied = total_pages = P (an empty source is copied without a report).
Unmodified == Len(hist) = 1
P == IF cfg.SourcePath = "" THEN 0 ELSE Len(hist[1])
CeilDiv(a, b) == (a + b - 1) \div b

C9_StepCount ==
    (OnlineChosen /\ Unmodified /\ validateOnlineConfig(cfg) = "ok") =>
        /\ \A i \in 1..Len(stepTrace) :
              /\ stepTrace[i] <= P
              /\ stepTrace[i] = Min(i * cfg.PagesPerStep, P)
        /\ pc \in {"loop", "sleep"} =>
              /\ Len(stepTrace) < CeilDiv(P, cfg.PagesPerStep)
              /\ \A i \in 1..Len(stepTrace) : stepTrace[i] < P
              /\ \A i \in 1..Len(reports) : ~reports[i].final
        /\ Has("copy_done") =>
              /\ Len(stepTrace) = CeilDiv(P, cfg.PagesPerStep)
              /\ \A i \in 1..Len(stepTrace) : stepTrace[i] = P <=> i = Len(stepTrace)
              /\ P = 0 => reports = <<>>
              /\ P > 0 =>
                    /\ reports # <<>>
                    /\ reports[Len(reports)] =
                          [pages_copied |-> P, total_pages |-> P, final |-> TRUE]
                    /\ \A i \in 1..(Len(reports) - 1) : ~reports[i].final

C9_Witness ==
    /\ OnlineChosen /\ Unmodified /\ Has("copy_done")
    /\ P = 2 /\ cfg.PagesPerStep = 1 /\ Len(stepTrace) = 2

\* C10: the online loop leaves with success exactly when a step reports that
\* no pages remain, and every loop that was entered is eventually left, also
\* while other connections keep writing to the source.
InLoop == pc \in {"loop", "sleep"}

C10_LoopTerminates ==
    /\ [][/\ (pc = "loop" /\ pc' = "compress")
               => ~BackupStep(backup, temp.pages, pagesPerStep(cfg)).more
          /\ (pc = "loop" /\ pc' \in {"loop", "sleep"} /\ backup'.seen # -1)
               => BackupStep(backup, temp.pages, pagesPerStep(cfg)).more]_vars
    /\ (InLoop ~> ~InLoop)

\* ------------------------------------------------------- claims C11 to C20
Verified == Len(client.stages) = 3
ResolveFailed == client.pc = "exit1" /\ client.stages = <<"resolve">>
LastRun == runLog[Len(runLog)]

\* C11: with an empty source and the online strategy the copy loop is never
\* entered, a run in which no call failed returns success and leaves its
\* artifact in the backup directory, and verifyBackup accepts that artifact
\* (whenever its gzip stream was closed).
C11_EmptySourceOnline ==
    (OnlineChosen /\ Len(SourceDb) = 0 /\ validateOnlineConfig(cfg) = "ok") =>
        /\ pc \notin {"loop", "sleep"}
        /\ (Returned /\ ~Has("copy_failed") /\ ~Has("compress_failed")) =>
              result = "ok" /\ finalBackupName \in DOMAIN dir
        /\ (Returned /\ result = "ok" /\ FullyWritten(dir[finalBackupName])) =>
              verifyBackup(dir[finalBackupName]) = "none"
        /\ (Verified /\ client.localFile = GzipStream(<<NewDbPage>>, 1, TRUE)) =>
              client.pc = "valid"

C11_Witness ==
    /\ OnlineChosen /\ Len(SourceDb) = 0 /\ Returned /\ result = "ok"
    /\ client.pc = "valid" /\ client.localFile = dir[finalBackupName]
    /\ client.localFile.body = <<NewDbPage>>

\* C12: the artifact name of a run is made of the source's base name without
\* extension, the UTC second at which the run started, and the strategy the
\* run executed (online when the strategy is unset); every artifact in the
\* backup directory carries the name of a run.
C12_ArtifactName ==
    /\ \A i \in 1..Len(runLog) :
          runLog[i].called # "unknown" =>
              runLog[i].name =
                  [base |-> FileNameOnly(cfg.SourcePath),
                   ts |-> Timestamp(runLog[i].start),
                   strategy |-> IF runLog[i].called = "vacuumInto"
                                THEN StrategyVacuum ELSE StrategyOnline]
    /\ runs > 0 => finalBackupName = LastRun.name
    /\ \A n \in DOMAIN dir :
          /\ \E i \in 1..Len(runLog) : runLog[i].name = n
          /\ n.strategy \in {StrategyVacuum, StrategyOnline}

C12_Witness ==
    /\ cfg.Strategy = "" /\ Returned /\ result = "ok"
    /\ finalBackupName \in DOMAIN dir /\ now > LastRun.start

\* C13: two runs that started in different seconds have different artifact
\* file names.
C13_DistinctNames ==
    \A i, j \in 1..Len(runLog) :
        runLog[i].start # runLog[j].start =>
            NameString(runLog[i].name) # NameString(runLog[j].name)

C13_Witness ==
    /\ Len(runLog) = 2 /\ runLog[1].start # runLog[2].start
    /\ DOMAIN dir = {runLog[1].name, runLog[2].name}

\* C14: an artifact that existed when a run began is still there with the same
\* content, and a run that returned an error has added no file to the backup
\* directory.
C14_ArtifactImmutable ==
    /\ \A n \in DOMAIN pre.dir : n \in DOMAIN dir /\ dir[n] = pre.dir[n]
    /\ (Returned /\ result # "ok") => DOMAIN dir = DOMAIN pre.dir

\* C15: findLatestBackup fails exactly when the directory is empty; on a
\* directory that holds artifacts only it returns the name of the artifact of
\* the latest run among those listed.
C15_ListingLatest ==
    (client.policy = "listing" /\ client.pc # "start") =>
        /\ ResolveFailed <=> client.files = {}
        /\ ResolveFailed => client.err = "err_no_backup_files"
        /\ (client.files # {} /\ Chars("latest.txt") \notin client.files) =>
              \E i \in 1..Len(runLog) :
                  /\ NameString(runLog[i].name) = client.latestBackupFilename
                  /\ client.latestBackupFilename \in client.files
                  /\ \A j \in 1..Len(runLog) :
                        NameString(runLog[j].name) \in client.files
                            => runLog[j].start <= runLog[i].start

C15_Witness ==
    /\ client.policy = "listing" /\ client.pc = "resolved"
    /\ Cardinality(client.files) = 2 /\ Chars("latest.txt") \notin client.files

\* C16: getLatestBackupFilename fails when latest.txt is missing, empty or
\* holds only a line break, and otherwise returns the content of the file
\* (its closing line break aside).
C16_ManifestVerbatim ==
    (client.policy = "manifest" /\ client.pc # "start") =>
        LET holdsName == manifestExists /\ manifest \notin {<<>>, <<LF>>}
        IN  /\ ResolveFailed <=> ~holdsName
            /\ holdsName =>
                  \/ client.latestBackupFilename = manifest
                  \/ client.latestBackupFilename \o <<LF>> = manifest

\* C17: the client runs resolve, download, verify in this order, a stage runs
\* only after the one before it has succeeded, the backup is reported valid
\* only after all three; when the resolved name is that of no file in the
\* backup directory the download fails with not-found and verify never runs.
C17_ClientOrder ==
    /\ \E k \in 0..3 : client.stages = SubSeq(<<"resolve", "download", "verify">>, 1, k)
    /\ client.pc = "start" <=> client.stages = <<>>
    /\ client.pc = "resolved" => client.stages = <<"resolve">> /\ client.err = "none"
    /\ client.pc = "downloaded" =>
          client.stages = <<"resolve", "download">> /\ client.err = "none"
    /\ client.pc = "valid" => Verified /\ client.err = "none"
    /\ client.pc = "exit1" => client.err # "none"
    /\ (/\ Len(client.stages) >= 2
        /\ client.latestBackupFilename # <<>>
        /\ ~(manifestExists /\ client.latestBackupFilename = Chars("latest.txt"))
        /\ \A n \in DOMAIN dir : NameString(n) # client.latestBackupFilename) =>
          /\ client.err = "err_not_found"
          /\ client.pc = "exit1"
          /\ client.stages = <<"resolve", "download">>

C17_Witness ==
    /\ client.policy = "manifest" /\ client.err = "err_not_found"
    /\ client.latestBackupFilename \in ManifestContents

\* C18: verifyBackup succeeds exactly when the file decompresses, the engine
\* runs the integrity check without an error, and the first row of the result
\* is "ok"; otherwise the client exits with a verification error.
C18_VerifyIffOk ==
    Verified =>
        LET d == decompressFile(client.localFile)
            r == IntegrityCheck(d)
        IN  /\ client.pc = "valid" <=>
                  (d.ok /\ ~r.err /\ r.rows # <<>> /\ r.rows[1] = "ok")
            /\ client.pc # "valid" =>
                  /\ client.pc = "exit1"
                  /\ client.err \in {"err_decompress", "err_integrity_check",
                                     "err_no_rows", "err_integrity_result"}
            /\ client.err = "err_decompress" <=> ~d.ok
            /\ client.err = "err_integrity_check" <=> (d.ok /\ r.err)

C18_Witness == Verified /\ client.err = "err_integrity_result"

\* C19: a complete gzip artifact that has lost its last byte is never
\* accepted by verifyBackup.
C19_TruncatedRejected ==
    /\ \A n \in DOMAIN dir :
          FullyWritten(dir[n]) => verifyBackup(TruncateLastByte(dir[n])) # "none"
    /\ (/\ Verified /\ FullyWritten(client.fetched)
        /\ client.localFile = TruncateLastByte(client.fetched)) =>
          client.pc = "exit1" /\ client.err # "none"

C19_Witness ==
    /\ Verified /\ FullyWritten(client.fetched) /\ Len(client.fetched.body) = MaxPages
    /\ client.localFile = TruncateLastByte(client.fetched)
    /\ verifyBackup(client.fetched) = "none"

Occurrences(seq, x) == Cardinality({i \in 1..Len(seq) : seq[i] = x})

\* C21: the scratch file verifyBackup decompresses into is removed when
\* verifyBackup returns, on every exit path, the failure of decompression
\* after the scratch file was created included.
C21_ScratchRemoved == Verified => client.scratch # "left"

\* C22: once the context of an invocation has been cancelled during the online
\* loop, the copy is not completed, no artifact is written and the manifest
\* stays as it was, and the run returns a failure with its temporary file
\* removed.
C22_CancelAborts ==
    ctx = "cancelled" =>
        /\ ~Has("copy_done")
        /\ dir = pre.dir /\ manifest = pre.manifest
        /\ Returned => result # "ok" /\ ~temp.exists

\* C23: a configuration that does not set the strategy is backed up by
\* vacuumInto, and the configuration GenerateBlueprintConfig returns selects
\* the vacuum strategy.
C23_VacuumDefault ==
    /\ (cfg.Strategy = "" /\ runs > 0) => LastRun.called = "vacuumInto"
    /\ GenerateBlueprintConfig.Strategy = StrategyVacuum

\* C24: while the online loop runs, the time since the last progress report
\* (or since the start of the run) never exceeds the configured
\* progress_log_interval.
C24_ProgressWindow == InLoop => quiet <= toml.progress_log_interval

\* C25: nothing is retried.  In one run of Handle the copy and the compression
\* are each started at most once, the source is opened at most once, and
\* the first error is the last stage of the run, which has returned with that
\* error; in one run of the client each of resolve, download, verify happens
\* at most once and an error leaves the client exited with failure.
C25_NoRetry ==
    /\ \A st \in {"copy", "copy_failed", "copy_done", "compress",
                  "compress_failed", "compress_done"} : Occurrences(stages, st) <= 1
    /\ srcOpens <= 1
    /\ \A i \in 1..Len(stages) :
          stages[i] \in {"copy_failed", "compress_failed"} =>
              /\ i = Len(stages)
              /\ pc = "idle"
              /\ result = IF stages[i] = "copy_failed" THEN "err_backup_creation"
                          ELSE "err_gzip"
    /\ \A st \in {"resolve", "download", "verify"} : Occurrences(client.stages, st) <= 1
    /\ client.err # "none" => client.pc = "exit1"

C25_Witness ==
    /\ Returned /\ result = "err_gzip" /\ Has("compress")
    /\ client.pc = "exit1" /\ client.err = "err_decompress"

\* C26: once the strategy copy has succeeded, the temporary file is gone when
\* Handle has returned, whether compression succeeded or failed.
C26_TempRemovedAfterCopy == (Returned /\ Has("copy_done")) => ~temp.exists

C26_Witness ==
    /\ Returned /\ Has("copy_done") /\ Has("compress_failed") /\ Has("compress")
    /\ Len(hist[1]) = MaxPages

\* C27: in the online loop a step copies at most pages_per_step pages (seen
\* in the page counts of a copy no commit disturbs); with a
\* positive sleep_interval every step that left pages to copy is followed by
\* exactly one sleep before the next step, with sleep_interval 0 the loop
\* never sleeps; the step that completes the copy and a step that fails are
\* followed by no sleep.
C27_Pacing ==
    (OnlineChosen /\ Len(stepTrace) < TraceCap) =>
        /\ Unmodified =>
              \A i \in 1..Len(stepTrace) :
                  stepTrace[i] - (IF i = 1 THEN 0 ELSE stepTrace[i - 1])
                      <= cfg.PagesPerStep
        /\ cfg.SleepInterval <= 0 => sleeps = 0 /\ pc # "sleep"
        /\ cfg.SleepInterval > 0 =>
              /\ pc = "loop" => sleeps = Len(stepTrace)
              /\ pc = "sleep" => sleeps = Len(stepTrace) - 1
              /\ Has("copy_done") => sleeps = Max(Len(stepTrace) - 1, 0)
              /\ Has("copy_failed") => sleeps = Len(stepTrace)

C27_Witness ==
    /\ OnlineChosen /\ cfg.SleepInterval > 0 /\ cfg.PagesPerStep = 1
    /\ Has("copy_done") /\ Len(stepTrace) = 2 /\ sleeps = 1

\* C28: with the online strategy and a source of zero pages the loop is not
\* entered: no step, no sleep, no progress report, and unless opening the
\* databases failed the copy has succeeded.
C28_EmptyShortCircuit ==
    (OnlineChosen /\ Unmodified /\ P = 0 /\ runs > 0) =>
        /\ ~InLoop
        /\ stepTrace = <<>> /\ sleeps = 0 /\ reports = <<>>
        /\ logger = NoLogger
        /\ (pc # "onlineBackup" /\ ~Has("copy_failed")) => Has("copy_done")

C28_Witness ==
    /\ OnlineChosen /\ Unmodified /\ P = 0 /\ cfg.SourcePath # ""
    /\ Returned /\ result = "ok" /\ Has("copy_done")

\* C29: while VACUUM INTO runs no writer commits to the source (the source
\* is what it was when the statement began), and between two steps of the
\* online copy the source is not locked.
C29_LockingTradeoff ==
    /\ pc = "vacuumStep" => SourceDb = snap
    /\ InLoop => ~srcLock

\* C30: when downloadBackup succeeds it returns the path of the local file
\* named like the remote one, and the local file holds the bytes of the
\* remote file; when the transfer breaks off it returns an error and no
\* path, the client exits, and the local file stays with what was written.
C30_Download ==
    [][(client.pc = "resolved" /\ client'.pc # "resolved") =>
          LET name  == client.latestBackupFilename
              found == {n \in DOMAIN dir : NameString(n) = name}
          IN  /\ client'.pc = "downloaded" =>
                    /\ client'.localPath = name
                    /\ client'.localExists
                    /\ \/ \E n \in found : client'.localFile = dir[n]
                       \/ name = Chars("latest.txt") /\ manifestExists
              /\ client'.err = "err_copy" =>
                    /\ client'.pc = "exit1"
                    /\ client'.localPath = <<>>
                    /\ client'.localExists
                    /\ \E n \in found : client'.localFile \in Partials(dir[n])
              /\ client'.pc \in {"downloaded", "exit1"}]_vars

C30_Witness ==
    /\ client.err = "err_copy" /\ client.localExists
    /\ client.localFile # client.fetched /\ client.localFile.body # <<>>

\* ------------------------------------------------------- claims C31 to C36
StrategyErrors ==
    {"err_pages_per_step", "err_sleep_interval", "err_open_source",
     "err_init_backup", "err_backup_step", "err_vacuum_step"}
CompressErrors == {"err_create_dest", "err_copy_compress"}

\* C31: the error of a failed run names exactly one step: the unknown
\* strategy (wrapping nothing), the backup creation, wrapping the error of the
\* strategy, or the gzip step, wrapping the error of the compression; which
\* one is named is the step that failed, and a run that succeeded returns nil.
C31_SingleWrappedError ==
    Returned =>
        /\ result = "ok" <=> handleErr = NoError
        /\ result # "ok" =>
              /\ handleErr.step = result
              /\ result \in {"err_unknown_strategy", "err_backup_creation", "err_gzip"}
        /\ result = "err_unknown_strategy" <=> Dispatch(cfg.Strategy) = "unknown"
        /\ result = "err_unknown_strategy" => handleErr.wraps = "none"
        /\ result = "err_backup_creation" <=> Has("copy_failed")
        /\ result = "err_backup_creation" => handleErr.wraps \in StrategyErrors
        /\ result = "err_gzip" <=> Has("compress_failed")
        /\ result = "err_gzip" => handleErr.wraps \in CompressErrors
        /\ ~(Has("copy_failed") /\ Has("compress_failed"))

C31_Witness ==
    /\ Returned /\ result = "err_backup_creation"
    /\ handleErr = Errorf("err_backup_creation", "err_pages_per_step")

\* C32: the source changes only by the commits of its writers, never by a
\* step of the backup, and a run opens the source read-only.
C32_SourceReadOnly ==
    [][/\ src' # src => commits' = commits + 1
       /\ srcFlags' \in {"none", "OpenReadOnly"}]_vars

C32_Witness ==
    /\ Returned /\ srcFlags = "OpenReadOnly" /\ OnlineChosen
    /\ Len(hist) > 1 /\ src = hist[Len(hist)] /\ src # hist[1]

\* C33: when Handle has returned success, the artifact of the run is in the
\* backup directory and holds the whole gzip stream, trailer included.
C33_SuccessMeansComplete ==
    (Returned /\ result = "ok") =>
        /\ finalBackupName \in DOMAIN dir
        /\ FullyWritten(dir[finalBackupName])

\* C34: the name findLatestBackup returns never refers to an artifact that is
\* still being written: at the moment the listing client resolves a name,
\* the file of that name in the backup directory holds its whole gzip stream.
C34_ListingSeesComplete ==
    [][(client.policy = "listing" /\ client.pc = "start" /\ client'.pc = "resolved") =>
          \A n \in DOMAIN dir :
              NameString(n) = client'.latestBackupFilename =>
                  ~(pc = "copy" /\ n = finalBackupName) /\ FullyWritten(dir[n])]_vars

\* C35: the name findLatestBackup returns is the name of an artifact, the one
\* of the latest run among the artifacts listed, also when the directory
\* holds latest.txt.
C35_ListingOnlyArtifacts ==
    (client.policy = "listing" /\ client.pc # "start" /\ ~ResolveFailed) =>
        \E i \in 1..Len(runLog) :
            /\ NameString(runLog[i].name) = client.latestBackupFilename
            /\ \A j \in 1..Len(runLog) :
                  NameString(runLog[j].name) \in client.files
                      => runLog[j].start <= runLog[i].start

\* C36: in every progress report 0 <= pages_copied <= total_pages, and
\* pages_copied does not decrease from one report to the next, whatever the
\* writers of the source do after the page count was sampled.
C36_ReportsMonotone ==
    \A i \in 1..Len(reports) :
        /\ 0 <= reports[i].pages_copied
        /\ reports[i].pages_copied <= reports[i].total_pages
        /\ i > 1 => reports[i - 1].pages_copied <= reports[i].pages_copied

====
